---------------------------- MODULE Spec2Model ----------------------------
(***************************************************************************)
(* Model of the desert-sim particle simulation: the per-frame physics tick *)
(* of components/SimulationCanvas.tsx (Pass 1: respawn, hand coupling,     *)
(* integration, clamp, boundaries, grid insertion; Pass 2: neighbourhood   *)
(* scan with positional correction and impulse), the shared hand slot, and *)
(* the life cycle of services/handDetection (HandDetectionService), and    *)
(* the count slider and reload button of App.tsx.                          *)
(*                                                                         *)
(* Numbers.  The particle arrays are Float32Arrays.  The model keeps every *)
(* position, velocity and radius as an integer count of 1/Scale pixel      *)
(* (fixed point), rounds each product or quotient to the nearest unit, and *)
(* keeps the three non-finite values of the format as the distinguished    *)
(* values NaN, PInf and NInf with the IEEE rules the code relies on        *)
(* (comparisons with NaN are false, NaN is absorbing, Infinity saturates). *)
(*                                                                         *)
(* Specifications.  Spec: the simulation with hands and resizes as inputs; *)
(* SpecService: the hand service from construction to after the cleanup;   *)
(* SpecRow, SpecPair, SpecFault, SpecFall: the ticker alone from a row of  *)
(* particles, an overlapping pair, an injected non-finite field, and a     *)
(* single particle released in mid-air; SpecHand, SpecCrowd: one particle  *)
(* under a single hand of each gesture, and under lists of two and three   *)
(* hands; SpecDegrade: ticks while frames of the service fail; SpecApp:    *)
(* slider moves and reloads between ticks; SpecCluster: a crowd sharing a  *)
(* cell; SpecImpact: a pair with relative velocity; SpecTrio: that pair    *)
(* with a third particle; SpecZero: two particles at one place, with a     *)
(* hand on them; SpecTrack: the detector's results through onResults.      *)
(***************************************************************************)
EXTENDS Integers, Sequences, FiniteSets, TLC

(***************************************************************************)
(* Program constants (SimulationCanvas.tsx; the last two: the service).    *)
(***************************************************************************)
GRAVITY == 30
FRICTION_AIR_PCT == 98
BOUNCE_WALL_PCT == 30
BOUNCE_GROUND_PCT == 30
HAND_RADIUS == 150
INTERACTION_FORCE == 800
MAX_VEL == 250
CELL_SIZE == 12
DT_INV == 60
POSITION_SCALE == 5
WALK_CAP == 50
RESPAWN_DROP == 50
STATS_EVERY == 15
HAND_VEL_SCALE_PCT == 4
POLL_ATTEMPTS == 100
VELOCITY_MIN_DT_MS == 10

(***************************************************************************)
(* Number representation.                                                  *)
(***************************************************************************)
Scale == 100
NScale == 1000
NaN == 2000000000
PInf == 1000000000
NInf == -1000000000

IsFinite(a) == a \notin {NaN, PInf, NInf}

\* a / b rounded to the nearest integer, halves away from zero (b > 0).
Rnd(a, b) ==
    IF a >= 0 THEN (2 * a + b) \div (2 * b)
    ELSE -((2 * (-a) + b) \div (2 * b))

\* a / b truncated toward zero (b > 0): the |0 of the grid index.
Trunc(a, b) == IF a >= 0 THEN a \div b ELSE -((-a) \div b)

RECURSIVE SqrtIter(_, _)
SqrtIter(n, g) ==
    LET h == (g + n \div g) \div 2
    IN IF h >= g THEN g ELSE SqrtIter(n, h)

\* Math.sqrt on a non-negative fixed-point square: the integer square root.
Sqrt(n) == IF n < 2 THEN n ELSE SqrtIter(n, n)

\* a + b of the float format, b finite.
FAdd(a, b) == IF IsFinite(a) THEN a + b ELSE a

\* a * (num / den) of the float format, num/den a positive constant.
FMul(a, num, den) == IF IsFinite(a) THEN Rnd(a * num, den) ELSE a

\* a > b and a < b of the float format, b finite: false whenever a is NaN.
FGt(a, b) == a # NaN /\ a > b
FLt(a, b) == a # NaN /\ a < b


(***************************************************************************)
(* State.                                                                  *)
(***************************************************************************)
VARIABLES
    particleCount,  \* the particleCount prop of the mounted simulation
    x, y, vx, vy,   \* particlesRef.current: 0..particleCount-1 -> number
    radius,
    screenW,        \* app.screen.width  (pixels; follows the container)
    screenH,        \* app.screen.height
    gridW, gridH,   \* grid dimensions, fixed at setup
    gridHead,       \* cell -> first particle index or -1
    nextParticle,   \* particle -> next index in its cell's list or -1
    handData,       \* handDataRef.current: the shared hand slot
    tickerCount,    \* ticks completed since setup
    lastStats,      \* the last sample passed to onStatsUpdate
    samples,        \* history: the samples the ticker has emitted since setup
    pc,             \* "idle" between ticks, "pass2" inside the Pass 2 loop
    cur,            \* the Pass 2 loop index i
    tickStart,      \* history: the particle arrays as the running tick found them
    mounted,        \* the effect is live: appRef and handServiceRef are set
    isRunning,      \* HandDetectionService.isRunning
    stream,         \* .stream: "none" (null), "live", "stopped" (tracks stopped)
    handsObj,       \* .hands: "none" (null), "open", "closed"
    videoReady,     \* videoElement.readyState >= 2
    windowHands,    \* window.Hands is defined
    initPc,         \* initialize(): "camera", "metadata", "poll", "done", "failed"
    attempts,       \* the polling loop's counter
    loopPc,         \* processLoop: "off", "sending" (in hands.send), "scheduled"
    frameFailed,    \* history: the last hands.send rejected, with no results since
    sliderValue,    \* App: the count slider's value
    simulationKey,  \* App: the key of the mounted SimulationCanvas
    lastPositions,  \* the service's map: label -> [x, y, time] or NoPosition
    now,            \* performance.now(), in milliseconds
    recorded        \* history: label -> the times of its first and last record
                    \* since the last result without hands, and the time of
                    \* the last result without hands that discarded a record
                    \* of it (-1: none)

setupVars == <<particleCount, radius, gridW, gridH>>
screenVars == <<screenW, screenH>>
particleVars == <<x, y, vx, vy>>
gridVars == <<gridHead, nextParticle>>
tickVars == <<tickerCount, lastStats, samples, pc, cur, tickStart>>
simVars == <<setupVars, screenVars, particleVars, gridVars, tickVars, handData>>
loopVars == <<isRunning, stream, handsObj, videoReady, windowHands, initPc,
              attempts, loopPc>>
serviceVars == <<loopVars, frameFailed>>

appVars == <<sliderValue, simulationKey>>

trackVars == <<lastPositions, now, recorded>>

vars == <<simVars, mounted, serviceVars, appVars, trackVars>>

Particles == 0 .. particleCount - 1

\* A pixel length in fixed-point units.
Px(p) == p * Scale

(***************************************************************************)
(* Pass 1, one particle.                                                   *)
(***************************************************************************)

\* Lines 226-251: what one hand adds to a particle at (px, py): the velocity
\* injection (dvx, dvy) and the acceleration (ax, ay).  hand.x, hand.y are
\* percentages of the screen, hand.velocity is in 1/100 screen per second.
NoContribution == [dvx |-> 0, dvy |-> 0, ax |-> 0, ay |-> 0]

\* HandForce with the fist pushing like the palm.
HandForceAlwaysPush(gesture, falloff) ==
    IF gesture = "OPEN_PALM" \/ gesture = "CLOSED_FIST"
    THEN Rnd(Px(INTERACTION_FORCE) * falloff, NScale)
    ELSE 0

\* Lines 245-247: the signed force of the gesture.
HandForce(gesture, falloff) ==
    IF gesture = "OPEN_PALM" THEN Rnd(Px(INTERACTION_FORCE) * falloff, NScale)
    ELSE IF gesture = "CLOSED_FIST" THEN -Rnd(Px(INTERACTION_FORCE) * falloff, NScale)
    ELSE 0

\* Lines 234-235: d / (dist || 0.1).
UnitComponent(d, dist) ==
    Rnd(d * NScale, IF dist # 0 THEN dist ELSE Scale \div 10)

\* Line 236.
Falloff(dist) == NScale - Rnd(dist * NScale, Px(HAND_RADIUS))

\* Lines 239-240: (hand.velocity?.x || 0) * screenW * 0.04.
HandVel(v, screenDim) == Rnd(v * screenDim * HAND_VEL_SCALE_PCT, 100)

\* Lines 238-250.
HandPush(hand, dx, dy, dist, falloff, force, sw, sh) ==
    [dvx |-> Rnd(HandVel(hand.velocity.x, sw) * falloff, NScale),
     dvy |-> Rnd(HandVel(hand.velocity.y, sh) * falloff, NScale),
     ax |-> Rnd(UnitComponent(dx, dist) * force, NScale),
     ay |-> Rnd(UnitComponent(dy, dist) * force, NScale)]

HandNear(hand, dx, dy, dist, falloff, sw, sh) ==
    HandPush(hand, dx, dy, dist, falloff, HandForce(hand.gesture, falloff), sw, sh)

\* Lines 228-233.
HandAt(hand, dx, dy, distSq, sw, sh) ==
    IF distSq < Px(HAND_RADIUS) * Px(HAND_RADIUS)
    THEN HandNear(hand, dx, dy, Sqrt(distSq), Falloff(Sqrt(distSq)), sw, sh)
    ELSE NoContribution

HandOffset(hand, dx, dy, sw, sh) == HandAt(hand, dx, dy, dx * dx + dy * dy, sw, sh)

HandContribution(hand, px, py, sw, sh) ==
    HandOffset(hand, px - hand.x * sw, py - hand.y * sh, sw, sh)

AddContribution(acc, c) ==
    [dvx |-> acc.dvx + c.dvx, dvy |-> acc.dvy + c.dvy,
     ax |-> acc.ax + c.ax, ay |-> acc.ay + c.ay]

\* Lines 221-252: ax = 0, ay = GRAVITY, then every hand of the list in turn.
RECURSIVE HandLoop(_, _, _, _, _, _, _)
HandLoop(hands, k, acc, px, py, sw, sh) ==
    IF k > Len(hands) THEN acc
    ELSE HandLoop(hands, k + 1,
                  AddContribution(acc, HandContribution(hands[k], px, py, sw, sh)),
                  px, py, sw, sh)

Accumulate(hands, px, py, sw, sh) ==
    HandLoop(hands, 1, [dvx |-> 0, dvy |-> 0, ax |-> 0, ay |-> Px(GRAVITY)],
             px, py, sw, sh)

\* Lines 213-219: a particle whose position is not finite is respawned at
\* (rx, screenH - 50) with zero velocity; rx is Math.random() * screenW.
NeedsRespawn(px, py) == ~IsFinite(px) \/ ~IsFinite(py)

Respawn(px, py, pvx, pvy, sh, rx) ==
    IF NeedsRespawn(px, py)
    THEN [x |-> rx, y |-> Px(sh - RESPAWN_DROP), vx |-> 0, vy |-> 0]
    ELSE [x |-> px, y |-> py, vx |-> pvx, vy |-> pvy]

\* Lines 260-265.
ClampVel(v) ==
    IF FGt(v, Px(MAX_VEL)) THEN Px(MAX_VEL)
    ELSE IF FLt(v, -Px(MAX_VEL)) THEN -Px(MAX_VEL)
    ELSE v

\* Lines 242-243 and 255-265 on one axis: injection, a * dt, drag, clamp.
Velocity(v, dv, acc) ==
    ClampVel(FMul(FAdd(FAdd(v, dv), Rnd(acc, DT_INV)), FRICTION_AIR_PCT, 100))

\* Lines 280-281 on one axis: pos += v * dt * 5.
Move(pos, v) ==
    IF IsFinite(v) THEN pos + Rnd(v * POSITION_SCALE, DT_INV) ELSE NaN

\* Boundary without the reflection: the position is clamped and the
\* velocity kept.
BoundaryKeepingVelocity(pos, vel, lo, hi, bounceHi, bounceLo) ==
    IF FGt(pos, hi) THEN [pos |-> hi, vel |-> vel]
    ELSE IF FLt(pos, lo) THEN [pos |-> lo, vel |-> vel]
    ELSE [pos |-> pos, vel |-> vel]

\* Boundary without its else-if branch: the lower limit is never enforced.
BoundaryUpperOnly(pos, vel, lo, hi, bounceHi, bounceLo) ==
    IF FGt(pos, hi) THEN [pos |-> hi, vel |-> FMul(-vel, bounceHi, 100)]
    ELSE [pos |-> pos, vel |-> vel]

\* Boundary without its first branch: the upper limit is never enforced.
BoundaryLowerOnly(pos, vel, lo, hi, bounceHi, bounceLo) ==
    IF FLt(pos, lo) THEN [pos |-> lo, vel |-> FMul(-vel, bounceLo, 100)]
    ELSE [pos |-> pos, vel |-> vel]

\* Lines 283-300 on one axis: position pos, velocity vel, limits lo..hi.
Boundary(pos, vel, lo, hi, bounceHi, bounceLo) ==
    IF FGt(pos, hi) THEN [pos |-> hi, vel |-> FMul(-vel, bounceHi, 100)]
    ELSE IF FLt(pos, lo) THEN [pos |-> lo, vel |-> FMul(-vel, bounceLo, 100)]
    ELSE [pos |-> pos, vel |-> vel]

\* The four fields of a particle from the two axes' results.
Assemble(bx, by) == [x |-> bx.pos, y |-> by.pos, vx |-> bx.vel, vy |-> by.vel]

(***************************************************************************)
(* The spatial grid.  A loop that updates arrays is a recursive operator on *)
(* the arrays' value; each step's result is bound as a value (r \in {...})  *)
(* before the next step is taken.                                          *)
(***************************************************************************)

\* Lines 303-304 and 315-316: (v / CELL_SIZE) | 0, which is 0 for NaN.
CellCoord(v) == IF IsFinite(v) THEN Trunc(v, Px(CELL_SIZE)) ELSE 0

InGrid(cx, cy) == cx >= 0 /\ cx < gridW /\ cy >= 0 /\ cy < gridH

\* Lines 302-310: particle i is prepended to the list of its cell, or left
\* out when the cell is outside the grid.  g = [head, next].
Insert(g, i, px, py) ==
    LET cx == CellCoord(px)
        cy == CellCoord(py)
        cellIdx == cy * gridW + cx
    IN IF InGrid(cx, cy)
       THEN [head |-> [g.head EXCEPT ![cellIdx] = i],
             next |-> [g.next EXCEPT ![i] = g.head[cellIdx]]]
       ELSE g

\* Lines 209 and 212-311: gridHead.fill(-1), then the insertions in index
\* order; next keeps the entries of earlier ticks until overwritten.
RECURSIVE InsertFrom(_, _, _, _)
InsertFrom(g, i, xs, ys) ==
    IF i >= particleCount THEN g
    ELSE CHOOSE out \in {InsertFrom(h, i + 1, xs, ys) :
                             h \in {Insert(g, i, xs[i], ys[i])}} : TRUE

\* Rebuild without gridHead.fill(-1): the heads of the previous tick stay.
RebuildKeepingHeads(xs, ys) ==
    InsertFrom([head |-> gridHead, next |-> nextParticle], 0, xs, ys)

Rebuild(xs, ys) ==
    InsertFrom([head |-> [c \in DOMAIN gridHead |-> -1], next |-> nextParticle],
               0, xs, ys)

(***************************************************************************)
(* Pass 2.  s = [x, y, vx, vy] is the particle arrays during the pass.     *)
(***************************************************************************)

\* Line 335: distSq < rSum * rSum && distSq > 0.001, false for NaN.
Overlapping(s, i, j) ==
    /\ IsFinite(s.x[i]) /\ IsFinite(s.y[i])
    /\ IsFinite(s.x[j]) /\ IsFinite(s.y[j])
    /\ LET dx == s.x[i] - s.x[j]
           dy == s.y[i] - s.y[j]
           distSq == dx * dx + dy * dy
           rSum == radius[i] + radius[j]
       IN distSq < rSum * rSum /\ distSq * 1000 > Scale * Scale

\* Impulse without lines 358-359: only particle i takes the impulse.
ImpulseFirstOnly(s, i, j, nx, ny) ==
    LET dvx == s.vx[i] - s.vx[j]
        dvy == s.vy[i] - s.vy[j]
        dotN == dvx * nx + dvy * ny
        dot == Rnd(dotN, NScale)
    IN IF dotN < 0
       THEN [s EXCEPT !.vx = [@ EXCEPT ![i] = @ - Rnd(nx * dot, 2 * NScale)],
                      !.vy = [@ EXCEPT ![i] = @ - Rnd(ny * dot, 2 * NScale)]]
       ELSE s

\* Impulse without the test of line 351: applied to every overlapping pair.
ImpulseAlways(s, i, j, nx, ny) ==
    LET dvx == s.vx[i] - s.vx[j]
        dvy == s.vy[i] - s.vy[j]
        dot == Rnd(dvx * nx + dvy * ny, NScale)
        impulseX == Rnd(nx * dot, 2 * NScale)
        impulseY == Rnd(ny * dot, 2 * NScale)
    IN [s EXCEPT !.vx = [@ EXCEPT ![i] = @ - impulseX, ![j] = @ + impulseX],
                 !.vy = [@ EXCEPT ![i] = @ - impulseY, ![j] = @ + impulseY]]

\* Lines 347-360: the impulse, applied only to an approaching pair.
Impulse(s, i, j, nx, ny) ==
    LET dvx == s.vx[i] - s.vx[j]
        dvy == s.vy[i] - s.vy[j]
        dotN == dvx * nx + dvy * ny
        dot == Rnd(dotN, NScale)
        impulseX == Rnd(nx * dot, 2 * NScale)
        impulseY == Rnd(ny * dot, 2 * NScale)
    IN IF dotN < 0
       THEN [s EXCEPT !.vx = [@ EXCEPT ![i] = @ - impulseX, ![j] = @ + impulseX],
                      !.vy = [@ EXCEPT ![i] = @ - impulseY, ![j] = @ + impulseY]]
       ELSE s

\* Lines 336-345: the positional correction, half the overlap each.
Correct(s, i, j) ==
    LET dx == s.x[i] - s.x[j]
        dy == s.y[i] - s.y[j]
        dist == Sqrt(dx * dx + dy * dy)
        overlap == radius[i] + radius[j] - dist
        nx == Rnd(dx * NScale, dist)
        ny == Rnd(dy * NScale, dist)
        mx == Rnd(nx * overlap, 2 * NScale)
        my == Rnd(ny * overlap, 2 * NScale)
        moved == [s EXCEPT !.x = [@ EXCEPT ![i] = @ + mx, ![j] = @ - mx],
                           !.y = [@ EXCEPT ![i] = @ + my, ![j] = @ - my]]
    IN Impulse(moved, i, j, nx, ny)

\* ResolvePair without the distSq > 0.001 test of line 335: for two centres
\* at the same point nx and ny are 0 / 0, and the positional correction
\* writes NaN into both positions; dot is NaN, so the velocities stay.
ResolvePairUnguarded(s, i, j) ==
    IF i = j THEN s
    ELSE IF s.x[i] = s.x[j] /\ s.y[i] = s.y[j]
         THEN [s EXCEPT !.x = [@ EXCEPT ![i] = NaN, ![j] = NaN],
                        !.y = [@ EXCEPT ![i] = NaN, ![j] = NaN]]
         ELSE IF Overlapping(s, i, j) THEN Correct(s, i, j) ELSE s

\* Lines 329-362: one candidate j of particle i.
ResolvePair(s, i, j) ==
    IF i # j /\ Overlapping(s, i, j) THEN Correct(s, i, j) ELSE s

\* The walk's end without the iteration cap: the end of the list only.
WalkEndsAtListEnd(j, iterations) == j = -1

\* Line 328, negated: the while loop stops at the end of the list or after
\* WALK_CAP iterations.
WalkEnds(j, iterations) == j = -1 \/ iterations >= WALK_CAP

\* Lines 325-365: the walk of one cell's list, at most WALK_CAP entries.
RECURSIVE WalkCell(_, _, _, _)
WalkCell(s, i, j, iterations) ==
    IF WalkEnds(j, iterations) THEN s
    ELSE CHOOSE out \in {WalkCell(r, i, nextParticle[j], iterations + 1) :
                             r \in {ResolvePair(s, i, j)}} : TRUE

\* Lines 318-367: the 3x3 block around (cx, cy), rows dy = -1..1, columns
\* dx = -1..1; k counts the cells already done.
RECURSIVE ScanCells(_, _, _, _, _)
ScanCells(s, i, cx, cy, k) ==
    IF k >= 9 THEN s
    ELSE LET ncx == cx + (k % 3) - 1
             ncy == cy + (k \div 3) - 1
         IN CHOOSE out \in {ScanCells(r, i, cx, cy, k + 1) :
                                r \in {IF InGrid(ncx, ncy)
                                       THEN WalkCell(s, i, gridHead[ncy * gridW + ncx], 0)
                                       ELSE s}} : TRUE

\* Lines 314-372 for one i: its cell from its current position, the scan.
ResolveParticle(s, i) ==
    ScanCells(s, i, CellCoord(s.x[i]), CellCoord(s.y[i]), 0)

(***************************************************************************)
(* Bounds of the model and the input sets the actions draw from.           *)
(***************************************************************************)
MaxParticles == 2
MaxTicks == 2

\* [width, height] of the container, in pixels.
ScreenDims == {<<48, 48>>, <<60, 60>>}

\* Math.random() * screenW of a respawn: a value of [0, screenW).
RespawnXs(sw) == {0, Px(sw) \div 2, Px(sw) - 1}

\* Hand records as the service publishes them (types.ts, HandData).
FastHand == [x |-> 50, y |-> 50, gesture |-> "OPEN_PALM",
             velocity |-> [x |-> 20000, y |-> 20000]]
FistHand == [x |-> 10, y |-> 40, gesture |-> "CLOSED_FIST",
             velocity |-> [x |-> 0, y |-> 0]]
HandLists == {<< >>, <<FastHand>>, <<FistHand>>}

\* What lines 137-144 can draw for one particle: Math.random() * width,
\* Math.random() * height, the two velocity components, the radius.
Spawns ==
    {[x |-> Px(2), y |-> Px(20), vx |-> 0, vy |-> 0, radius |-> Px(3)],
     [x |-> Px(5), y |-> Px(20), vx |-> Px(2), vy |-> -Px(2), radius |-> Px(3) \div 2],
     [x |-> Px(5), y |-> Px(40), vx |-> 0, vy |-> 0, radius |-> Px(3)],
     [x |-> Px(2), y |-> Px(40), vx |-> -Px(2), vy |-> Px(2), radius |-> Px(3) \div 2]}

(***************************************************************************)
(* Setup (useEffect, lines 63-166) and the hand service as constructed.    *)
(***************************************************************************)
CeilDiv(a, b) == (a + b - 1) \div b

\* The effect of lines 63-166 for a count of n, the random draws of lines
\* 137-144 being xs, ys, vxs, vys, rs and the container w by h.
Mount(n, xs, ys, vxs, vys, rs, w, h) ==
    /\ particleCount = n
    /\ x = xs /\ y = ys /\ vx = vxs /\ vy = vys /\ radius = rs
    /\ screenW = w /\ screenH = h
    /\ gridW = CeilDiv(w, CELL_SIZE)
    /\ gridH = CeilDiv(h, CELL_SIZE)
    /\ gridHead = [c \in 0 .. CeilDiv(w, CELL_SIZE) * CeilDiv(h, CELL_SIZE) - 1 |-> -1]
    /\ nextParticle = [i \in 0 .. n - 1 |-> -1]
    /\ handData = << >>
    /\ tickerCount = 0
    /\ lastStats = [particleCount |-> n, hands |-> << >>]
    /\ samples = 0
    /\ pc = "idle"
    /\ cur = 0
    /\ tickStart = [x |-> xs, y |-> ys, vx |-> vxs, vy |-> vys]
    /\ mounted = TRUE

\* The first mount: App starts with the slider on the active count and key 0
\* (App.tsx lines 13-15).
Setup(n, xs, ys, vxs, vys, rs, w, h) ==
    /\ Mount(n, xs, ys, vxs, vys, rs, w, h)
    /\ sliderValue = n
    /\ simulationKey = 0

\* The state after setup with particle i drawn as sp[i].
SetupSpawned(n, sp, w, h) ==
    Setup(n, [i \in 0 .. n - 1 |-> sp[i].x], [i \in 0 .. n - 1 |-> sp[i].y],
          [i \in 0 .. n - 1 |-> sp[i].vx], [i \in 0 .. n - 1 |-> sp[i].vy],
          [i \in 0 .. n - 1 |-> sp[i].radius], w, h)

\* The handedness labels (line 365) and the empty entry of lastPositions.
Labels == {"Left", "Right"}
NoPosition == [x |-> -1, y |-> -1, time |-> -1]
NoRecord == [first |-> -1, last |-> -1, dropped |-> -1]

\* Line 248: lastPositions starts empty; the clock starts at 0.
NewTracking ==
    /\ lastPositions = [l \in Labels |-> NoPosition]
    /\ now = 0
    /\ recorded = [l \in Labels |-> NoRecord]

\* The service's fields after the constructor and the call of initialize(),
\* which runs to its first await inside startCamera.
ServiceCreated ==
    /\ isRunning = FALSE
    /\ stream = "none"
    /\ handsObj = "none"
    /\ videoReady = FALSE
    /\ initPc = "camera"
    /\ attempts = 0
    /\ loopPc = "off"
    /\ frameFailed = FALSE
    /\ NewTracking

\* The service once initialize() has completed with a camera: processLoop is
\* waiting for hands.send.
ServiceSending ==
    /\ isRunning = TRUE
    /\ stream = "live"
    /\ handsObj = "open"
    /\ videoReady = TRUE
    /\ initPc = "done"
    /\ attempts = 0
    /\ loopPc = "sending"
    /\ windowHands = TRUE
    /\ frameFailed = FALSE
    /\ NewTracking

Init ==
    /\ \E n \in 1 .. MaxParticles, d \in ScreenDims :
        \E sp \in [0 .. n - 1 -> Spawns] :
            /\ \A i \in 0 .. n - 1 : sp[i].x < Px(d[1]) /\ sp[i].y < Px(d[2])
            /\ SetupSpawned(n, sp, d[1], d[2])
    /\ ServiceSending

(***************************************************************************)
(* The ticker callback (lines 170-382), in three steps: Pass 1 for every   *)
(* particle, Pass 2 one particle at a time, and the tick's end.  A tick    *)
(* runs to completion: no other handler runs while pc = "pass2".           *)
(***************************************************************************)
Faulty == {i \in Particles : NeedsRespawn(x[i], y[i])}

\* Pass 1 (lines 212-300) for every particle, stage by stage.  Particles do
\* not read one another in Pass 1, so each stage is taken for all of them.
\* Lines 213-219; rnd gives the random abscissa of each respawned particle.
Respawned(rnd) ==
    [i \in Particles |->
        Respawn(x[i], y[i], vx[i], vy[i], screenH, IF i \in Faulty THEN rnd[i] ELSE 0)]

\* Accumulated with the slot read per particle and emptied after the first.
AccumulatedFirstOnly(p) ==
    [i \in Particles |->
        Accumulate(IF i = 0 THEN handData ELSE << >>, p[i].x, p[i].y, screenW, screenH)]

\* Lines 221-252 from the positions p.
Accumulated(p) ==
    [i \in Particles |-> Accumulate(handData, p[i].x, p[i].y, screenW, screenH)]

\* Lines 242-243 and 254-265.
Accelerated(p, a) ==
    [i \in Particles |->
        [vx |-> Velocity(p[i].vx, a[i].dvx, a[i].ax),
         vy |-> Velocity(p[i].vy, a[i].dvy, a[i].ay)]]

\* Lines 280-281.
Moved(p, v) ==
    [i \in Particles |-> [x |-> Move(p[i].x, v[i].vx), y |-> Move(p[i].y, v[i].vy)]]

\* Lines 283-300: the ground and the ceiling, then the two walls.
Bounded(m, v) ==
    [i \in Particles |->
        Assemble(Boundary(m[i].x, v[i].vx, radius[i], Px(screenW) - radius[i],
                          BOUNCE_WALL_PCT, BOUNCE_WALL_PCT),
                 Boundary(m[i].y, v[i].vy, radius[i], Px(screenH) - radius[i],
                          BOUNCE_GROUND_PCT, BOUNCE_WALL_PCT))]

\* Pass1Write with respawn as removal: a particle that needed a respawn is
\* left out of the arrays.
Pass1WriteDroppingFaulty(new, g) ==
    /\ x' = [i \in Particles \ Faulty |-> new[i].x]
    /\ y' = [i \in Particles \ Faulty |-> new[i].y]
    /\ vx' = [i \in Particles \ Faulty |-> new[i].vx]
    /\ vy' = [i \in Particles \ Faulty |-> new[i].vy]
    /\ gridHead' = g.head
    /\ nextParticle' = g.next

\* Lines 280-281, 283-300 and 303-311: the writes of Pass 1 into the
\* particle arrays and the grid arrays.
Pass1Write(new, g) ==
    /\ x' = [i \in Particles |-> new[i].x]
    /\ y' = [i \in Particles |-> new[i].y]
    /\ vx' = [i \in Particles |-> new[i].vx]
    /\ vy' = [i \in Particles |-> new[i].vy]
    /\ gridHead' = g.head
    /\ nextParticle' = g.next

Pass1Grid(new) ==
    Pass1Write(new, Rebuild([i \in Particles |-> new[i].x],
                            [i \in Particles |-> new[i].y]))

Pass1 ==
    /\ mounted
    /\ pc = "idle"
    /\ \E rnd \in [Faulty -> RespawnXs(screenW)] :
        \E p \in {Respawned(rnd)} :
            \E a \in {Accumulated(p)} :
                \E v \in {Accelerated(p, a)} :
                    \E m \in {Moved(p, v)} :
                        \E new \in {Bounded(m, v)} : Pass1Grid(new)
    /\ pc' = "pass2"
    /\ cur' = 0
    /\ tickStart' = [x |-> x, y |-> y, vx |-> vx, vy |-> vy]
    /\ UNCHANGED <<setupVars, screenVars, handData, tickerCount, lastStats, samples,
                   mounted, appVars, trackVars, serviceVars>>

Pass2Step ==
    /\ pc = "pass2"
    /\ cur < particleCount
    /\ \E s \in {ResolveParticle([x |-> x, y |-> y, vx |-> vx, vy |-> vy], cur)} :
        x' = s.x /\ y' = s.y /\ vx' = s.vx /\ vy' = s.vy
    /\ cur' = cur + 1
    /\ UNCHANGED <<setupVars, screenVars, gridVars, handData, tickerCount,
                   lastStats, samples, pc, tickStart, mounted, appVars, trackVars, serviceVars>>

\* The sampling test made before tickerCount++ instead of after it.
SampleDueBeforeIncrement(n) == (n - 1) % STATS_EVERY = 0

\* Line 375, n being tickerCount after the increment of line 374.
SampleDue(n) == n % STATS_EVERY = 0

\* Lines 374-381.
EndTick ==
    /\ pc = "pass2"
    /\ cur = particleCount
    /\ tickerCount' = tickerCount + 1
    /\ lastStats' = IF SampleDue(tickerCount + 1)
                    THEN [particleCount |-> particleCount, hands |-> handData]
                    ELSE lastStats
    /\ samples' = IF SampleDue(tickerCount + 1) THEN samples + 1 ELSE samples
    /\ pc' = "idle"
    /\ cur' = 0
    /\ UNCHANGED <<setupVars, screenVars, particleVars, gridVars, handData,
                   tickStart, mounted, appVars, trackVars, serviceVars>>

\* resizeTo (line 70): the renderer follows its container between ticks.
Resize(w, h) ==
    /\ mounted
    /\ pc = "idle"
    /\ <<w, h>> # <<screenW, screenH>>
    /\ screenW' = w
    /\ screenH' = h
    /\ UNCHANGED <<setupVars, particleVars, gridVars, handData, tickVars,
                   mounted, appVars, trackVars, serviceVars>>

(***************************************************************************)
(* The hand service (HandDetectionService).  Each action is the code       *)
(* between two awaits; the browser runs them one at a time and never       *)
(* inside a tick.                                                          *)
(***************************************************************************)
\* processLoop up to its first await or its return.
LoopEntry(running, hasHands, ready) ==
    IF ~running THEN "off"
    ELSE IF hasHands /\ ready THEN "sending"
    ELSE "scheduled"

\* getUserMedia resolves: the stream is stored and attached to the video.
CameraGranted ==
    /\ pc = "idle"
    /\ initPc = "camera"
    /\ stream' = "live"
    /\ initPc' = "metadata"
    /\ UNCHANGED <<simVars, frameFailed, mounted, appVars, trackVars, isRunning, handsObj, videoReady, attempts,
                   windowHands, loopPc>>

\* getUserMedia rejects: startCamera rethrows, initialize logs and goes on.
CameraDenied ==
    /\ pc = "idle"
    /\ initPc = "camera"
    /\ initPc' = "poll"
    /\ UNCHANGED <<simVars, frameFailed, mounted, appVars, trackVars, isRunning, stream, handsObj, videoReady,
                   attempts, windowHands, loopPc>>

\* loadedmetadata fires and play() resolves: startCamera returns.
MetadataLoaded ==
    /\ pc = "idle"
    /\ initPc = "metadata"
    /\ videoReady' = TRUE
    /\ initPc' = "poll"
    /\ UNCHANGED <<simVars, frameFailed, mounted, appVars, trackVars, isRunning, stream, handsObj, attempts,
                   windowHands, loopPc>>

\* The MediaPipe script tag finishes loading.
ScriptLoaded ==
    /\ pc = "idle"
    /\ ~windowHands
    /\ windowHands' = TRUE
    /\ UNCHANGED <<simVars, frameFailed, mounted, appVars, trackVars, isRunning, stream, handsObj, videoReady,
                   initPc, attempts, loopPc>>

\* One evaluation of the polling loop's condition with window.Hands absent:
\* another 100 ms wait, or the return after POLL_ATTEMPTS waits.
PollWait ==
    /\ pc = "idle"
    /\ initPc = "poll"
    /\ ~windowHands
    /\ IF attempts < POLL_ATTEMPTS
       THEN attempts' = attempts + 1 /\ initPc' = initPc
       ELSE attempts' = attempts /\ initPc' = "failed"
    /\ UNCHANGED <<simVars, frameFailed, mounted, appVars, trackVars, isRunning, stream, handsObj, videoReady,
                   windowHands, loopPc>>

\* The rest of initialize() once window.Hands exists: the Hands object is
\* created and, with a ready video or a stored stream, the loop is started.
CreateHands ==
    /\ pc = "idle"
    /\ initPc = "poll"
    /\ windowHands
    /\ handsObj' = "open"
    /\ initPc' = "done"
    /\ IF videoReady \/ stream # "none"
       THEN /\ isRunning' = TRUE
            /\ loopPc' = LoopEntry(TRUE, TRUE, videoReady)
       ELSE UNCHANGED <<isRunning, loopPc>>
    /\ UNCHANGED <<simVars, frameFailed, mounted, appVars, trackVars, stream, videoReady, attempts, windowHands>>

\* onResults, called by MediaPipe while a send is in progress: the list it
\* builds goes to the callback of line 386, which replaces the slot.
OnResults(data) ==
    /\ pc = "idle"
    /\ loopPc = "sending"
    /\ handsObj = "open"
    /\ handData' = data
    /\ frameFailed' = FALSE
    /\ UNCHANGED <<setupVars, screenVars, particleVars, gridVars, tickVars,
                   mounted, appVars, trackVars, loopVars>>

(***************************************************************************)
(* onResults in full (HandDetectionService lines 354-412): from the        *)
(* detector's landmarks to the published records.  Coordinates are in      *)
(* percent of the frame, times in milliseconds, velocities in percent per  *)
(* second.  OnResults above takes the published list as its input and      *)
(* leaves the position history alone; this action derives the list.        *)
(***************************************************************************)

\* The clock of the model stops at MaxTime milliseconds.
MaxTime == 30

\* Lines 366-368: the detector's label, or the fallback by index (0-based).
MpLabel(entry, index) ==
    IF entry.handedness # "none" THEN entry.handedness
    ELSE IF index = 0 THEN "Right" ELSE "Left"

\* Line 375: the labels are swapped.
SwapLabel(mpLabel) == IF mpLabel = "Left" THEN "Right" ELSE "Left"

\* Lines 378-381: the mirrored centre of wrist and middle-finger knuckle.
CenterX(entry) == 100 - Rnd(entry.wrist.x + entry.middleMCP.x, 2)
CenterY(entry) == Rnd(entry.wrist.y + entry.middleMCP.y, 2)

\* Lines 435-438 of detectGesture, from the count of open fingers.
DetectGesture(openCount) == IF openCount >= 3 THEN "OPEN_PALM" ELSE "CLOSED_FIST"

\* Lines 386-397: zero unless the label has a position more than 0.01 s old.
TrackedVelocity(lastPos, cx, cy, t) ==
    IF lastPos # NoPosition /\ t - lastPos.time > VELOCITY_MIN_DT_MS
    THEN [x |-> Rnd((cx - lastPos.x) * 1000, t - lastPos.time),
          y |-> Rnd((cy - lastPos.y) * 1000, t - lastPos.time)]
    ELSE [x |-> 0, y |-> 0]

\* Lines 375-408: one landmark list, given the history so far.
TrackOne(entry, index, last, t) ==
    [last |-> [last EXCEPT ![SwapLabel(MpLabel(entry, index))] =
                   [x |-> CenterX(entry), y |-> CenterY(entry), time |-> t]],
     hand |-> [id |-> SwapLabel(MpLabel(entry, index)),
               x |-> CenterX(entry), y |-> CenterY(entry),
               gesture |-> DetectGesture(entry.openCount),
               velocity |-> TrackedVelocity(last[SwapLabel(MpLabel(entry, index))],
                                            CenterX(entry), CenterY(entry), t)]]

\* Line 364: the forEach over the landmark lists, in order.
RECURSIVE TrackFrom(_, _, _, _, _)
TrackFrom(results, k, last, t, hands) ==
    IF k > Len(results) THEN [last |-> last, hands |-> hands]
    ELSE CHOOSE out \in {TrackFrom(results, k + 1, r.last, t, Append(hands, r.hand)) :
                            r \in {TrackOne(results[k], k - 1, last, t)}} : TRUE

\* lastPositions keeping its entries where line 357 clears them.
ClearedKeepingHistory == lastPositions

\* Line 357: lastPositions.clear().
Cleared == [l \in Labels |-> NoPosition]

\* Lines 355-359: a result without hands.
NoHands == [last |-> Cleared, hands |-> << >>]

\* The labels a result records.
LabelsOf(results) == {SwapLabel(MpLabel(results[k], k - 1)) : k \in 1..Len(results)}

\* The history of one label after a result at time t.
Noted(rec, l, results, t) ==
    IF Len(results) = 0
    THEN [first |-> -1, last |-> -1,
          dropped |-> IF rec.last # -1 THEN t ELSE rec.dropped]
    ELSE IF l \in LabelsOf(results)
    THEN [first |-> IF rec.first = -1 THEN t ELSE rec.first, last |-> t,
          dropped |-> rec.dropped]
    ELSE rec

\* The whole handler; elapsed is the time since the previous result.
OnResultsTracked(results, elapsed) ==
    /\ pc = "idle"
    /\ loopPc = "sending"
    /\ handsObj = "open"
    /\ now + elapsed <= MaxTime
    /\ now' = now + elapsed
    /\ \E out \in {IF Len(results) = 0 THEN NoHands
                   ELSE TrackFrom(results, 1, lastPositions, now + elapsed, << >>)} :
          /\ handData' = out.hands
          /\ lastPositions' = out.last
    /\ recorded' = [l \in Labels |-> Noted(recorded[l], l, results, now + elapsed)]
    /\ frameFailed' = FALSE
    /\ UNCHANGED <<setupVars, screenVars, particleVars, gridVars, tickVars,
                   mounted, appVars, loopVars>>

\* hands.send resolves: the next frame is requested.
SendSettled ==
    /\ pc = "idle"
    /\ loopPc = "sending"
    /\ loopPc' = "scheduled"
    /\ UNCHANGED <<simVars, frameFailed, mounted, appVars, trackVars, isRunning, stream, handsObj, videoReady,
                   initPc, attempts, windowHands>>

\* hands.send rejects: the catch block swallows the error and the next
\* frame is requested.
SendFailed ==
    /\ pc = "idle"
    /\ loopPc = "sending"
    /\ loopPc' = "scheduled"
    /\ frameFailed' = TRUE
    /\ UNCHANGED <<simVars, mounted, appVars, trackVars, isRunning, stream, handsObj, videoReady,
                   initPc, attempts, windowHands>>

\* The requested animation frame runs processLoop.
FrameFired ==
    /\ pc = "idle"
    /\ loopPc = "scheduled"
    /\ loopPc' = LoopEntry(isRunning, handsObj # "none", videoReady)
    /\ UNCHANGED <<simVars, frameFailed, mounted, appVars, trackVars, isRunning, stream, handsObj, videoReady,
                   initPc, attempts, windowHands>>

\* The effect's cleanup (lines 391-400): the application is destroyed and
\* stop() runs; the pending frame is cancelled, the tracks are stopped and
\* the Hands object is closed.
Stop ==
    /\ pc = "idle"
    /\ mounted
    /\ mounted' = FALSE
    /\ isRunning' = FALSE
    /\ loopPc' = IF loopPc = "scheduled" THEN "off" ELSE loopPc
    /\ stream' = IF stream = "none" THEN "none" ELSE "stopped"
    /\ handsObj' = IF handsObj = "none" THEN "none" ELSE "closed"
    /\ UNCHANGED <<simVars, frameFailed, videoReady, initPc, attempts, windowHands,
                   appVars, trackVars>>

(***************************************************************************)
(* App (App.tsx): the count slider and the reload button.  Event handlers  *)
(* run between ticks.                                                      *)
(***************************************************************************)
\* The slider's onChange (line 114): setSliderValue.  SimulationCanvas is
\* memoised and none of its props changes, so nothing else does.
SliderChange(v) ==
    /\ mounted
    /\ pc = "idle"
    /\ v # sliderValue
    /\ sliderValue' = v
    /\ UNCHANGED <<simVars, mounted, serviceVars, simulationKey, trackVars>>

\* Drawn for a reload that grows or shrinks the store in place: a particle
\* of the previous population keeps its fields.
DrawnUnlessKept(sp, i, fld) ==
    IF i \in Particles
    THEN CASE fld = "x" -> x[i]
           [] fld = "y" -> y[i]
           [] fld = "vx" -> vx[i]
           [] fld = "vy" -> vy[i]
           [] fld = "radius" -> radius[i]
    ELSE sp[i][fld]

\* Field fld of particle i as the init loop of lines 133-144 leaves it: the
\* value drawn for it, sp[i].
Drawn(sp, i, fld) == sp[i][fld]

\* handleReload (lines 17-20) and the re-render it causes: the key changes,
\* so React unmounts the SimulationCanvas (the cleanup of lines 391-400) and
\* mounts a new one with particleCount = sliderValue: new refs, the effect
\* of lines 63-166 with new random draws sp, and a new service, which the
\* call of initialize() leaves at its first await.  The container keeps its
\* size, and window.Hands outlives the service.
Reload ==
    /\ mounted
    /\ pc = "idle"
    /\ simulationKey' = simulationKey + 1
    /\ particleCount' = sliderValue
    /\ \E sp \in [0 .. sliderValue - 1 -> Spawns] :
        /\ \A i \in DOMAIN sp : sp[i].x < Px(screenW) /\ sp[i].y < Px(screenH)
        /\ x' = [i \in DOMAIN sp |-> Drawn(sp, i, "x")]
        /\ y' = [i \in DOMAIN sp |-> Drawn(sp, i, "y")]
        /\ vx' = [i \in DOMAIN sp |-> Drawn(sp, i, "vx")]
        /\ vy' = [i \in DOMAIN sp |-> Drawn(sp, i, "vy")]
        /\ radius' = [i \in DOMAIN sp |-> Drawn(sp, i, "radius")]
    /\ gridW' = CeilDiv(screenW, CELL_SIZE)
    /\ gridH' = CeilDiv(screenH, CELL_SIZE)
    /\ gridHead' = [c \in 0 .. CeilDiv(screenW, CELL_SIZE) * CeilDiv(screenH, CELL_SIZE) - 1
                      |-> -1]
    /\ nextParticle' = [i \in 0 .. sliderValue - 1 |-> -1]
    /\ handData' = << >>
    /\ tickerCount' = 0
    /\ lastStats' = [particleCount |-> sliderValue, hands |-> << >>]
    /\ samples' = 0
    /\ cur' = 0
    /\ tickStart' = [x |-> x', y |-> y', vx |-> vx', vy |-> vy']
    /\ isRunning' = FALSE
    /\ stream' = "none"
    /\ handsObj' = "none"
    /\ videoReady' = FALSE
    /\ initPc' = "camera"
    /\ attempts' = 0
    /\ loopPc' = "off"
    /\ frameFailed' = FALSE
    /\ lastPositions' = [l \in Labels |-> NoPosition]
    /\ recorded' = [l \in Labels |-> NoRecord]
    /\ UNCHANGED <<screenVars, pc, mounted, sliderValue, windowHands, now>>

(***************************************************************************)
(* Spec: the simulation with a running hand service.                       *)
(***************************************************************************)
Tick == tickerCount < MaxTicks /\ Pass1

HandInput == \E data \in HandLists : data # handData /\ OnResults(data)

ResizeInput == \E d \in ScreenDims : Resize(d[1], d[2])

Next == Tick \/ Pass2Step \/ EndTick \/ HandInput \/ ResizeInput

Spec == Init /\ [][Next]_vars

(***************************************************************************)
(* SpecService: the life of the hand service from its construction to      *)
(* after the cleanup, the simulation standing still.                       *)
(***************************************************************************)
InitService ==
    /\ SetupSpawned(1, [i \in {0} |-> CHOOSE sp \in Spawns : sp.vx = 0 /\ sp.y = Px(20)],
                    48, 48)
    /\ ServiceCreated
    /\ windowHands \in BOOLEAN

NextService ==
    \/ CameraGranted
    \/ CameraDenied
    \/ MetadataLoaded
    \/ ScriptLoaded
    \/ PollWait
    \/ CreateHands
    \/ HandInput
    \/ SendSettled
    \/ SendFailed
    \/ FrameFired
    \/ Stop

SpecService == InitService /\ [][NextService]_vars

(***************************************************************************)
(* SpecRow: one tick of a row of equal particles at rest in mid-air, close *)
(* enough for chains of overlaps; no hands, no resize.                     *)
(***************************************************************************)
RowParticles == 5
RowTicks == 1

\* Abscissae a particle of the row may be drawn at, in pixels times two.
RowXs == {36, 39, 41, 45, 48}

InitRow ==
    /\ \E xs \in [0 .. RowParticles - 1 -> RowXs] :
        Setup(RowParticles,
              [i \in 0 .. RowParticles - 1 |-> Px(xs[i]) \div 2],
              [i \in 0 .. RowParticles - 1 |-> Px(20)],
              [i \in 0 .. RowParticles - 1 |-> 0],
              [i \in 0 .. RowParticles - 1 |-> 0],
              [i \in 0 .. RowParticles - 1 |-> Px(3)],
              60, 60)
    /\ ServiceCreated
    /\ windowHands = FALSE

RowTick == tickerCount < RowTicks /\ Pass1

NextRow == RowTick \/ Pass2Step \/ EndTick

SpecRow == InitRow /\ [][NextRow]_vars

(***************************************************************************)
(* SpecPair: one tick of two particles at rest on one horizontal line in   *)
(* mid-air, their centres d > 0 apart and closer than the sum of their     *)
(* radii; no hands, no resize.                                             *)
(***************************************************************************)
PairTicks == 1

\* The ends of the radius range of line 144.
PairRadii == {Px(3) \div 2, Px(3)}

InitPair ==
    /\ \E r \in [0 .. 1 -> PairRadii], side \in {-1, 1} :
        \E d \in 1 .. r[0] + r[1] - 1 :
            Setup(2,
                  [i \in 0 .. 1 |-> IF i = 0 THEN Px(20) ELSE Px(20) + side * d],
                  [i \in 0 .. 1 |-> Px(20)],
                  [i \in 0 .. 1 |-> 0],
                  [i \in 0 .. 1 |-> 0],
                  r, 48, 48)
    /\ ServiceCreated
    /\ windowHands = FALSE

PairTick == tickerCount < PairTicks /\ Pass1

NextPair == PairTick \/ Pass2Step \/ EndTick

SpecPair == InitPair /\ [][NextPair]_vars

(***************************************************************************)
(* SpecFault: the simulation started with one field of one particle not    *)
(* finite, as a fault injected into the particle arrays.                   *)
(***************************************************************************)
NonFinite == {NaN, PInf, NInf}

\* Spawns and a particle next to the top-left corner, where the respawn of
\* a 48-high screen puts a particle drawn at abscissa 0.
FaultSpawns ==
    Spawns \cup {[x |-> Px(2), y |-> Px(4), vx |-> 0, vy |-> 0, radius |-> Px(3)]}

\* Field fld of the spawn sp[i], replaced by val for particle f.
Injected(sp, i, fld, f, inj, val) ==
    IF i = f /\ fld = inj THEN val ELSE sp[i][fld]

InitFault ==
    /\ \E n \in 1 .. MaxParticles :
        \E sp \in [0 .. n - 1 -> FaultSpawns], f \in 0 .. n - 1,
           inj \in {"x", "y", "vx", "vy"}, val \in NonFinite :
            Setup(n,
                  [i \in 0 .. n - 1 |-> Injected(sp, i, "x", f, inj, val)],
                  [i \in 0 .. n - 1 |-> Injected(sp, i, "y", f, inj, val)],
                  [i \in 0 .. n - 1 |-> Injected(sp, i, "vx", f, inj, val)],
                  [i \in 0 .. n - 1 |-> Injected(sp, i, "vy", f, inj, val)],
                  [i \in 0 .. n - 1 |-> sp[i].radius],
                  48, 48)
    /\ ServiceSending

NextFault == Tick \/ Pass2Step \/ EndTick \/ HandInput

SpecFault == InitFault /\ [][NextFault]_vars

(***************************************************************************)
(* SpecFall: a single particle released at rest in mid-air; no hands, no   *)
(* resize.  The ticker runs every frame: weak fairness of the tick.        *)
(***************************************************************************)
FallTicks == 100

\* Heights of release, in pixels.
FallYs == {5, 10, 20, 30, 40}

InitFall ==
    /\ \E d \in ScreenDims, h \in FallYs, r \in PairRadii :
        Setup(1, [i \in {0} |-> Px(20)], [i \in {0} |-> Px(h)],
              [i \in {0} |-> 0], [i \in {0} |-> 0], [i \in {0} |-> r],
              d[1], d[2])
    /\ ServiceCreated
    /\ windowHands = FALSE

FallTick == tickerCount < FallTicks /\ Pass1

NextFall == FallTick \/ Pass2Step \/ EndTick

SpecFall == InitFall /\ [][NextFall]_vars /\ WF_vars(NextFall)

(***************************************************************************)
(* SpecHand: one particle at rest and a single hand of any gesture, on a   *)
(* screen small enough for every hand to be in reach and on one wide       *)
(* enough for a hand to be out of reach.                                   *)
(***************************************************************************)
HandTicks == 1

HandDims == {<<48, 48>>, <<360, 48>>}

\* Particle positions, in pixels.
HandSpawnXs == {2, 20, 24, 40, 200, 340}
HandSpawnYs == {10, 24, 40}

\* One-hand lists: the hand at the centre or to the upper left, still or
\* moving, with each value of HandGesture (types.ts).
GestureHands ==
    {[x |-> c[1], y |-> c[2], gesture |-> g, velocity |-> [x |-> v, y |-> -v]] :
        c \in {<<50, 50>>, <<10, 40>>},
        g \in {"NONE", "OPEN_PALM", "CLOSED_FIST"},
        v \in {0, 100}}

InitHand ==
    /\ \E d \in HandDims, px \in HandSpawnXs, py \in HandSpawnYs :
        /\ px < d[1] /\ py < d[2]
        /\ Setup(1, [i \in {0} |-> Px(px)], [i \in {0} |-> Px(py)],
                 [i \in {0} |-> 0], [i \in {0} |-> 0], [i \in {0} |-> Px(3)],
                 d[1], d[2])
    /\ ServiceSending

HandTick == tickerCount < HandTicks /\ Pass1

GestureInput == \E h \in GestureHands : <<h>> # handData /\ OnResults(<<h>>)

NextHand == HandTick \/ Pass2Step \/ EndTick \/ GestureInput

SpecHand == InitHand /\ [][NextHand]_vars

(***************************************************************************)
(* SpecCrowd: the simulation with results of two and of three hands        *)
(* published; onResults forwards one record per entry of                   *)
(* results.multiHandLandmarks.                                             *)
(***************************************************************************)
CrowdLists ==
    {<<FistHand, FastHand>>,
     <<FistHand, FistHand, FastHand>>,
     <<FastHand, FistHand, FistHand>>}

CrowdInput == \E data \in CrowdLists : data # handData /\ OnResults(data)

NextCrowd == Tick \/ Pass2Step \/ EndTick \/ CrowdInput

SpecCrowd == Init /\ [][NextCrowd]_vars

(***************************************************************************)
(* SpecDegrade: the simulation with a hand service that either never got   *)
(* its Hands object or is running and may lose frames.                     *)
(***************************************************************************)
\* initialize() has returned at line 279: window.Hands never appeared.
ServiceFailed ==
    /\ isRunning = FALSE
    /\ stream \in {"none", "live"}
    /\ handsObj = "none"
    /\ videoReady = (stream = "live")
    /\ initPc = "failed"
    /\ attempts = POLL_ATTEMPTS
    /\ loopPc = "off"
    /\ windowHands = FALSE
    /\ frameFailed = FALSE
    /\ NewTracking

InitDegrade ==
    /\ \E d \in ScreenDims, sp \in [{0} -> Spawns] :
        /\ sp[0].x < Px(d[1]) /\ sp[0].y < Px(d[2])
        /\ SetupSpawned(1, sp, d[1], d[2])
    /\ ServiceFailed \/ ServiceSending

NextDegrade ==
    \/ Tick
    \/ Pass2Step
    \/ EndTick
    \/ HandInput
    \/ SendSettled
    \/ SendFailed
    \/ FrameFired

SpecDegrade == InitDegrade /\ [][NextDegrade]_vars

(***************************************************************************)
(* Observation points of a tick and the predicates the claims use.         *)
(***************************************************************************)
\* Pass 1 has completed and Pass 2 has not started.
AfterPass1 == pc = "pass2" /\ cur = 0

\* Pass 2 and the write-back have completed for every particle.
TickDone == pc = "pass2" /\ cur = particleCount

InBounds(i) ==
    /\ IsFinite(x[i]) /\ IsFinite(y[i])
    /\ radius[i] <= x[i] /\ x[i] <= Px(screenW) - radius[i]
    /\ radius[i] <= y[i] /\ y[i] <= Px(screenH) - radius[i]

VelocityClamped(i) ==
    /\ IsFinite(vx[i]) /\ IsFinite(vy[i])
    /\ -Px(MAX_VEL) <= vx[i] /\ vx[i] <= Px(MAX_VEL)
    /\ -Px(MAX_VEL) <= vy[i] /\ vy[i] <= Px(MAX_VEL)

\* The particles reached from index j by at most k next links.
RECURSIVE ListFrom(_, _)
ListFrom(j, k) ==
    IF j = -1 \/ k = 0 THEN << >>
    ELSE <<j>> \o ListFrom(nextParticle[j], k - 1)

CellList(c) == ListFrom(gridHead[c], particleCount + 1)

Occurrences(i, c) ==
    Cardinality({k \in 1 .. Len(CellList(c)) : CellList(c)[k] = i})

\* The cell (floor(x / 12), floor(y / 12)) of particle i, as [cx, cy].
FloorCell(i) == <<x[i] \div Px(CELL_SIZE), y[i] \div Px(CELL_SIZE)>>

\* The indices the walk of lines 325-365 visits from entry j of a list.
RECURSIVE Visited(_, _)
Visited(j, iterations) ==
    IF WalkEnds(j, iterations) THEN {}
    ELSE {j} \cup Visited(nextParticle[j], iterations + 1)

\* The number of iterations the while loop of lines 328-364 makes from
\* entry j, iterations of them being made already.
RECURSIVE WalkLength(_, _)
WalkLength(j, iterations) ==
    IF WalkEnds(j, iterations) THEN iterations
    ELSE WalkLength(nextParticle[j], iterations + 1)

\* The cells of the 3x3 block around the cell of particle i's current
\* position that lie in the grid, as cell indices.
BlockCells(i) ==
    {d[2] * gridW + d[1] :
        d \in {e \in (CellCoord(x[i]) - 1 .. CellCoord(x[i]) + 1)
                       \X (CellCoord(y[i]) - 1 .. CellCoord(y[i]) + 1) :
                 InGrid(e[1], e[2])}}

\* The sum of f over the finite set S.
RECURSIVE SumOver(_, _)
SumOver(S, f) ==
    IF S = {} THEN 0
    ELSE LET c == CHOOSE e \in S : TRUE IN f[c] + SumOver(S \ {c}, f)

\* The candidates the scan of particle i examines: the iterations of the
\* walks of all cells of its block.
Examined(i) == SumOver(BlockCells(i), [c \in BlockCells(i) |-> WalkLength(gridHead[c], 0)])

\* Every j that the scan of particle i tests: the lists of the cells of
\* the 3x3 block around the cell of i's current position.
Candidates(i) ==
    UNION {Visited(gridHead[c[2] * gridW + c[1]], 0) :
           c \in {d \in (CellCoord(x[i]) - 1 .. CellCoord(x[i]) + 1)
                          \X (CellCoord(y[i]) - 1 .. CellCoord(y[i]) + 1) :
                   InGrid(d[1], d[2])}}

\* Squared centre distance of particles i and j in arrays xs, ys.
DistSq(xs, ys, i, j) ==
    (xs[i] - xs[j]) * (xs[i] - xs[j]) + (ys[i] - ys[j]) * (ys[i] - ys[j])

RadiusSum(i, j) == radius[i] + radius[j]

\* Particle i as the running tick found it.
StartPositionFinite(i) == IsFinite(tickStart.x[i]) /\ IsFinite(tickStart.y[i])
StartVelocityFinite(i) == IsFinite(tickStart.vx[i]) /\ IsFinite(tickStart.vy[i])

AllFinite(i) ==
    IsFinite(x[i]) /\ IsFinite(y[i]) /\ IsFinite(vx[i]) /\ IsFinite(vy[i])

\* The running tick found two particles at rest on one horizontal line,
\* overlapping with their centres apart, and no hands.
PairPlacedOverlapping ==
    /\ particleCount = 2
    /\ handData = << >>
    /\ \A i \in Particles :
        StartPositionFinite(i) /\ tickStart.vx[i] = 0 /\ tickStart.vy[i] = 0
    /\ tickStart.y[0] = tickStart.y[1]
    /\ tickStart.x[0] # tickStart.x[1]
    /\ DistSq(tickStart.x, tickStart.y, 0, 1) < RadiusSum(0, 1) * RadiusSum(0, 1)

\* The single particle lies on the ground, slower than half a pixel per
\* second: the state the ground bounce of a resting particle reproduces.
Resting ==
    /\ y[0] = Px(screenH) - radius[0]
    /\ -Px(1) \div 2 <= vy[0] /\ vy[0] <= Px(1) \div 2

\* The only hand of the slot, its offset to particle i as the running tick
\* found it, and their distance.
TheHand == handData[1]
HandDx(i) == tickStart.x[i] - TheHand.x * screenW
HandDy(i) == tickStart.y[i] - TheHand.y * screenH
HandDist(i) == Sqrt(HandDx(i) * HandDx(i) + HandDy(i) * HandDy(i))

\* The hand's part of the acceleration the running tick accumulated for i.
HandAccel(i) ==
    [ax |-> Accumulate(handData, tickStart.x[i], tickStart.y[i], screenW, screenH).ax,
     ay |-> Accumulate(handData, tickStart.x[i], tickStart.y[i], screenW, screenH).ay
            - Px(GRAVITY)]

\* Its components along and across the hand-to-particle direction.
AlongHand(i) ==
    Rnd(HandAccel(i).ax * UnitComponent(HandDx(i), HandDist(i))
        + HandAccel(i).ay * UnitComponent(HandDy(i), HandDist(i)), NScale)
AcrossHand(i) ==
    Rnd(HandAccel(i).ax * UnitComponent(HandDy(i), HandDist(i))
        - HandAccel(i).ay * UnitComponent(HandDx(i), HandDist(i)), NScale)

\* INTERACTION_FORCE * (1 - d / 150) for d = HandDist(i).
ExpectedForce(i) ==
    Rnd(INTERACTION_FORCE * (Px(HAND_RADIUS) - HandDist(i)), HAND_RADIUS)

\* One hand is in the slot and particle i started the tick within its
\* reach, not on it.
SingleHandInReach(i) ==
    /\ Len(handData) = 1
    /\ StartPositionFinite(i)
    /\ 0 < HandDist(i) /\ HandDist(i) < Px(HAND_RADIUS)

Within(a, b, tol) == a - b <= tol /\ b - a <= tol

\* The first two records of a hand list.
FirstTwo(hands) == SubSeq(hands, 1, IF Len(hands) < 2 THEN Len(hands) ELSE 2)

\* What the running tick accumulated for particle i from the list hands.
AccumulatedFrom(hands, i) ==
    Accumulate(hands, tickStart.x[i], tickStart.y[i], screenW, screenH)

\* No hand is tracked: the detector reported none, or the service never
\* got its Hands object, or the last frame was lost.
NoHandTracked == handData = << >> \/ initPc = "failed" \/ frameFailed

\* The particles a scan over all particles finds overlapping i now.
BruteForce(i) ==
    {j \in Particles \ {i} :
        Overlapping([x |-> x, y |-> y, vx |-> vx, vy |-> vy], i, j)}

(***************************************************************************)
(* C1.  At the end of every tick every particle lies within the screen     *)
(* bounds: radius <= x <= screenW - radius and radius <= y <= screenH -    *)
(* radius.  Pass 2 moves overlapping particles apart after the boundary    *)
(* step, so the code does not keep this.                                   *)
(***************************************************************************)
C1_InBoundsAtTickEnd == TickDone => \A i \in Particles : InBounds(i)

(***************************************************************************)
(* C2.  At the end of every tick both velocity components of every         *)
(* particle are within -MAX_VEL .. MAX_VEL.  The impulses of Pass 2 are    *)
(* applied after the clamp, so the code does not keep this.                *)
(***************************************************************************)
C2_VelocityClampedAtTickEnd == TickDone => \A i \in Particles : VelocityClamped(i)

C5_EveryParticleInItsCellList ==
    AfterPass1 =>
        \A i \in Particles :
            IsFinite(x[i]) /\ IsFinite(y[i]) =>
                /\ InGrid(FloorCell(i)[1], FloorCell(i)[2])
                /\ \A c \in DOMAIN gridHead :
                    Occurrences(i, c) =
                        IF c = FloorCell(i)[2] * gridW + FloorCell(i)[1] THEN 1 ELSE 0

(***************************************************************************)
(* C6.  Once stop() has returned the hand service neither writes the hand  *)
(* slot nor starts its processing loop, however stop() interleaves with a  *)
(* pending initialize().  stop() does not end a pending initialize(): it   *)
(* goes on to create the Hands object and, finding the stored stream,      *)
(* starts the loop, so the code does not keep this.                        *)
(***************************************************************************)
C6_QuietAfterStop ==
    [][~mounted => handData' = handData /\ (isRunning' => isRunning)]_vars

(***************************************************************************)
(* C4.  When particle i is processed in Pass 2, every particle that a      *)
(* scan over all particles would find overlapping i at that moment is      *)
(* among the particles that the scan of the 3x3 block around i's cell      *)
(* tests.  The lists hold the cells of the Pass 1 positions while Pass 2   *)
(* moves particles in place, so the code does not keep this.               *)
(***************************************************************************)
C4_GridScanMissesNoOverlap ==
    pc = "pass2" /\ cur < particleCount => BruteForce(cur) \subseteq Candidates(cur)

(***************************************************************************)
(* C7.  Two particles at rest on one horizontal line, with no hands,       *)
(* overlapping with their centres a positive distance apart, are at least  *)
(* the sum of their radii apart at the end of one tick.  Line 335 resolves *)
(* a pair only when distSq > 0.001, so the code does not keep this for     *)
(* centres closer than about 0.03 pixels.                                  *)
(***************************************************************************)
C7_OverlappingPairSeparates ==
    TickDone /\ PairPlacedOverlapping =>
        DistSq(x, y, 0, 1) >= RadiusSum(0, 1) * RadiusSum(0, 1)

(***************************************************************************)
(* C8.  A particle whose position was not finite at the start of a tick    *)
(* has, at the end of that tick, a finite position within the screen       *)
(* bounds and a finite velocity, and every other particle that was finite  *)
(* at the start of the tick still is.  The respawned particle goes through *)
(* Pass 2 like any other, which can move it out of bounds (C1).            *)
(***************************************************************************)
C8_PositionFaultRecovered ==
    TickDone =>
        \A i \in Particles :
            ~StartPositionFinite(i) =>
                /\ InBounds(i)
                /\ IsFinite(vx[i]) /\ IsFinite(vy[i])
                /\ \A j \in Particles \ {i} :
                    StartPositionFinite(j) /\ StartVelocityFinite(j) => AllFinite(j)

(***************************************************************************)
(* C9.  A particle with a finite position and a velocity component that    *)
(* was not finite at the start of a tick has a finite position and a       *)
(* finite velocity at the end of that tick (the finiteness part of the     *)
(* claimed recovery).  The respawn test of line 214 looks at the position  *)
(* only, so a NaN velocity reaches the position and stays.                 *)
(***************************************************************************)
C9_VelocityFaultRecovered ==
    TickDone =>
        \A i \in Particles :
            StartPositionFinite(i) /\ ~StartVelocityFinite(i) => AllFinite(i)

(***************************************************************************)
(* C10.  A single particle released at rest in mid-air, with no hands,     *)
(* comes to rest on the ground: from some tick on y = screenH - radius in  *)
(* every state, which is reached within SettleWithin ticks and, once       *)
(* reached, is kept by every step; and both velocity components stay       *)
(* within -MAX_VEL .. MAX_VEL throughout.                                  *)
(***************************************************************************)
SettleWithin == 90

C10_SettlesAndStays ==
    /\ <>[]Resting
    /\ [](tickerCount >= SettleWithin => Resting)
    /\ [][Resting => Resting']_vars
    /\ []VelocityClamped(0)

\* The particle has bounced, come to rest and stayed to the last tick.
C10_Witness ==
    /\ TickDone
    /\ tickerCount = FallTicks - 1
    /\ Resting
    /\ vy[0] < 0
    /\ tickStart.y[0] = y[0]

(***************************************************************************)
(* C11.  For a single hand at distance d from a particle, 0 < d < 150:     *)
(* OPEN_PALM adds an acceleration along the hand-to-particle direction of  *)
(* size INTERACTION_FORCE * (1 - d / 150), CLOSED_FIST adds the opposite   *)
(* one, and NONE leaves the acceleration at exactly (0, GRAVITY).  Sizes   *)
(* are compared to within ForceTol(i), the rounding of the fixed-point     *)
(* falloff and of the distance in the unit vector; the sign is required    *)
(* wherever the expected size exceeds it.                                  *)
(***************************************************************************)
ForceTol(i) == 4 * Scale + (2 * Px(INTERACTION_FORCE)) \div HandDist(i)

C11_GestureForceDirection ==
    AfterPass1 =>
        \A i \in Particles :
            SingleHandInReach(i) =>
                /\ TheHand.gesture = "OPEN_PALM" =>
                    /\ Within(AlongHand(i), ExpectedForce(i), ForceTol(i))
                    /\ Within(AcrossHand(i), 0, ForceTol(i))
                    /\ ExpectedForce(i) > ForceTol(i) => AlongHand(i) > 0
                /\ TheHand.gesture = "CLOSED_FIST" =>
                    /\ Within(AlongHand(i), -ExpectedForce(i), ForceTol(i))
                    /\ Within(AcrossHand(i), 0, ForceTol(i))
                    /\ ExpectedForce(i) > ForceTol(i) => AlongHand(i) < 0
                /\ TheHand.gesture = "NONE" =>
                    HandAccel(i) = [ax |-> 0, ay |-> 0]

\* A tick has pushed a resting particle right of a still open palm to the
\* right.
C11_Witness ==
    /\ AfterPass1
    /\ SingleHandInReach(0)
    /\ TheHand.gesture = "OPEN_PALM"
    /\ TheHand.velocity.x = 0
    /\ HandDx(0) > 0
    /\ tickStart.vx[0] = 0
    /\ vx[0] > 0
    /\ ExpectedForce(0) > ForceTol(0)

(***************************************************************************)
(* C12.  When the hand list read by a tick holds more than 2 records, the  *)
(* records at index 2 and beyond add neither force nor velocity to any     *)
(* particle: what the tick accumulates is what it would accumulate from    *)
(* the first 2 records.  Only the aura update stops at index 2; the hand   *)
(* loop of Pass 1 runs over the whole list, so the code does not keep      *)
(* this.                                                                   *)
(***************************************************************************)
C12_ExtraHandsIgnored ==
    AfterPass1 /\ Len(handData) > 2 =>
        \A i \in Particles :
            StartPositionFinite(i) =>
                AccumulatedFrom(handData, i) = AccumulatedFrom(FirstTwo(handData), i)

(***************************************************************************)
(* C13.  While no hand is tracked, because the detector reported none, the *)
(* service failed to initialize or frame processing failed after hands had *)
(* been published, a tick adds no hand force and no hand velocity: what it *)
(* accumulates for each particle is exactly (0, GRAVITY).  A failed frame  *)
(* leaves the last published list in the slot, so the code does not keep   *)
(* this.                                                                   *)
(***************************************************************************)
C13_NoHandNoForce ==
    AfterPass1 /\ NoHandTracked =>
        \A i \in Particles :
            StartPositionFinite(i) =>
                AccumulatedFrom(handData, i) =
                    [dvx |-> 0, dvy |-> 0, ax |-> 0, ay |-> Px(GRAVITY)]


(***************************************************************************)
(* C14.  The population is fixed for a run: in every state each particle   *)
(* array has exactly the indices 0 .. particleCount - 1, and no step (Pass *)
(* 1 with its respawns, a Pass 2 step with its collisions, the end of a    *)
(* tick, a hand update) changes the particle count or any particle's       *)
(* radius.                                                                 *)
(***************************************************************************)
C14_PopulationFixed ==
    /\ [](/\ DOMAIN x = Particles /\ DOMAIN y = Particles
          /\ DOMAIN vx = Particles /\ DOMAIN vy = Particles
          /\ DOMAIN radius = Particles /\ DOMAIN nextParticle = Particles)
    /\ [][particleCount' = particleCount /\ radius' = radius]_vars

\* A tick with a hand in the slot has ended in which one of two particles
\* was respawned.
C14_Witness ==
    /\ TickDone
    /\ particleCount > 1
    /\ handData # << >>
    /\ \E i \in Particles : ~StartPositionFinite(i) /\ IsFinite(x[i])

(***************************************************************************)
(* SpecApp: the simulation under the App's controls: the slider is moved   *)
(* and the reload button is clicked between ticks.  The slider's range     *)
(* 1000 .. 15000 is scaled down to 1 .. MaxParticles.                      *)
(***************************************************************************)
MaxReloads == 2

SliderValues == 1 .. MaxParticles

InitApp ==
    /\ \E sp \in [{0} -> Spawns] : SetupSpawned(1, sp, 48, 48)
    /\ ServiceSending

SliderInput == \E v \in SliderValues : SliderChange(v)

ReloadClick == simulationKey < MaxReloads /\ Reload

NextApp == Tick \/ Pass2Step \/ EndTick \/ HandInput \/ SliderInput \/ ReloadClick

SpecApp == InitApp /\ [][NextApp]_vars

(***************************************************************************)
(* C15.  The running population changes only through a reload.  A step     *)
(* that keeps the key keeps the particle count, the arrays' length and     *)
(* every radius; a step that moves the slider changes no field of any      *)
(* particle; and a step that changes the key (a reload) leaves a           *)
(* population of exactly sliderValue particles, the value of the slider    *)
(* at that moment, each of them one of the draws of the init loop.         *)
(***************************************************************************)
C15_CountChangesOnlyByReload ==
    [][/\ simulationKey' = simulationKey =>
            /\ particleCount' = particleCount
            /\ DOMAIN x' = DOMAIN x
            /\ radius' = radius
       /\ sliderValue' # sliderValue =>
            /\ particleCount' = particleCount
            /\ x' = x /\ y' = y /\ vx' = vx /\ vy' = vy /\ radius' = radius
       /\ simulationKey' # simulationKey =>
            /\ particleCount' = sliderValue
            /\ DOMAIN x' = 0 .. sliderValue - 1
            /\ DOMAIN y' = 0 .. sliderValue - 1
            /\ DOMAIN vx' = 0 .. sliderValue - 1
            /\ DOMAIN vy' = 0 .. sliderValue - 1
            /\ DOMAIN radius' = 0 .. sliderValue - 1
            /\ \A i \in 0 .. sliderValue - 1 :
                [x |-> x'[i], y |-> y'[i], vx |-> vx'[i], vy |-> vy'[i],
                 radius |-> radius'[i]] \in Spawns]_vars

\* The run started with one particle; a reload has made it more, and the new
\* population has gone through a tick with the slider since moved away from
\* the running count.
C15_Witness ==
    /\ simulationKey > 0
    /\ particleCount > 1
    /\ tickerCount > 0
    /\ sliderValue # particleCount

(***************************************************************************)
(* C16.  Counting ticks from 1 at setup, the ticker emits a sample at the  *)
(* end of tick n exactly when n is a multiple of 15: the number of samples *)
(* emitted is tickerCount \div 15 in every state; a step that ends a tick  *)
(* emits one sample, carrying the particle count of the simulation and the *)
(* hand slot, if the new tick number is a multiple of 15 and none          *)
(* otherwise; and no other step emits one.                                 *)
(***************************************************************************)
C16_SampleEveryFifteenTicks ==
    /\ [](samples = tickerCount \div 15)
    /\ [][IF tickerCount' = tickerCount + 1
          THEN IF tickerCount' % 15 = 0
               THEN /\ samples' = samples + 1
                    /\ lastStats' = [particleCount |-> particleCount, hands |-> handData]
               ELSE samples' = samples /\ lastStats' = lastStats
          ELSE samples' = samples /\ lastStats' = lastStats]_vars

\* Thirty ticks have run and two samples have been emitted, the last with
\* the particle count.
C16_Witness ==
    /\ pc = "idle"
    /\ tickerCount = 30
    /\ samples = 2
    /\ lastStats.particleCount = particleCount

(***************************************************************************)
(* SpecCluster: one tick of a crowd of equal particles at rest, the first  *)
(* k of them at one point and the others at another, so that one cell's    *)
(* list can be longer than the walk's cap.  Particles at the same point    *)
(* are not resolved (line 335), so the crowd stays together.               *)
(***************************************************************************)
ClusterParticles == 52
ClusterTicks == 1

\* The two points of the crowd, in different cells of a 48 by 48 screen.
ClusterPoints == {<<Px(6), Px(20)>>, <<Px(30), Px(20)>>, <<Px(30), Px(40)>>}

\* Sizes of the first group: around none, the cap, and all.
ClusterSplits ==
    {0, 1, WALK_CAP - 1, WALK_CAP, WALK_CAP + 1, ClusterParticles}

InitCluster ==
    /\ \E a \in ClusterPoints, b \in ClusterPoints, k \in ClusterSplits :
        /\ a # b
        /\ Setup(ClusterParticles,
                 [i \in 0 .. ClusterParticles - 1 |-> IF i < k THEN a[1] ELSE b[1]],
                 [i \in 0 .. ClusterParticles - 1 |-> IF i < k THEN a[2] ELSE b[2]],
                 [i \in 0 .. ClusterParticles - 1 |-> 0],
                 [i \in 0 .. ClusterParticles - 1 |-> 0],
                 [i \in 0 .. ClusterParticles - 1 |-> Px(3)],
                 48, 48)
    /\ ServiceCreated
    /\ windowHands = FALSE

ClusterTick == tickerCount < ClusterTicks /\ Pass1

NextCluster == ClusterTick \/ Pass2Step \/ EndTick

SpecCluster == InitCluster /\ [][NextCluster]_vars

(***************************************************************************)
(* C17.  In every state the walk of every cell's list ends after at most   *)
(* 50 iterations, and when a particle is processed in Pass 2 the walks of  *)
(* the cells of its 3x3 block examine at most 450 candidates in all.       *)
(***************************************************************************)
C17_WalkCapped ==
    /\ \A c \in DOMAIN gridHead : WalkLength(gridHead[c], 0) <= 50
    /\ pc = "pass2" /\ cur < particleCount => Examined(cur) <= 450

\* A particle is being processed in Pass 2 while a cell of its block holds
\* more than 50 particles, of which the walk visits 50.
C17_Witness ==
    /\ pc = "pass2"
    /\ cur < particleCount
    /\ \E c \in BlockCells(cur) :
        /\ Len(CellList(c)) > 50
        /\ WalkLength(gridHead[c], 0) = 50

\* The fields Pass 1 leaves particle i with, from its fields at the start of
\* the running tick and the hand list hands (lines 221-300).
Pass1From(hands, i) ==
    LET a == AccumulatedFrom(hands, i)
        nvx == Velocity(tickStart.vx[i], a.dvx, a.ax)
        nvy == Velocity(tickStart.vy[i], a.dvy, a.ay)
    IN Assemble(Boundary(Move(tickStart.x[i], nvx), nvx, radius[i],
                         Px(screenW) - radius[i], BOUNCE_WALL_PCT, BOUNCE_WALL_PCT),
                Boundary(Move(tickStart.y[i], nvy), nvy, radius[i],
                         Px(screenH) - radius[i], BOUNCE_GROUND_PCT, BOUNCE_WALL_PCT))

\* Particle i as the arrays hold it.
Fields(i) == [x |-> x[i], y |-> y[i], vx |-> vx[i], vy |-> vy[i]]

(***************************************************************************)
(* C18.  A tick works with one hand list, the one in the slot when it      *)
(* starts: no step that starts, continues or ends a tick changes the slot, *)
(* and when Pass 1 has completed every particle has the fields that Pass 1 *)
(* gives it from that list.  A list that was replaced before the tick      *)
(* started has no part in it.                                              *)
(***************************************************************************)
C18_OneHandListPerTick ==
    /\ [][pc = "pass2" \/ pc' = "pass2" => handData' = handData]_vars
    /\ [](AfterPass1 =>
            \A i \in Particles :
                StartPositionFinite(i) => Fields(i) = Pass1From(handData, i))

\* Pass 1 has completed for two particles with a hand in the slot that
\* changed what the second particle accumulated.
C18_Witness ==
    /\ AfterPass1
    /\ particleCount > 1
    /\ handData # << >>
    /\ AccumulatedFrom(handData, 1) # AccumulatedFrom(<< >>, 1)
    /\ Fields(1) = Pass1From(handData, 1)

(***************************************************************************)
(* SpecImpact: one tick of two overlapping particles in mid-air that move  *)
(* towards each other, apart, or not at all; no hands, no resize.          *)
(***************************************************************************)
ImpactTicks == 1

\* Where the second particle is drawn, from the first one's centre.
ImpactOffsets ==
    {<<Px(2), 0>>, <<-Px(3) \div 2, Px(1)>>, <<Px(1), Px(3)>>, <<0, -Px(5) \div 2>>,
     <<Px(3), Px(3)>>}

\* The velocities of lines 140-141 the two particles are drawn with.
ImpactVels == {<<0, 0>>, <<Px(2), -Px(1)>>, <<-Px(2), Px(1)>>, <<0, -Px(5) \div 2>>}

InitImpact ==
    /\ \E off \in ImpactOffsets, v \in [0 .. 1 -> ImpactVels] :
        Setup(2,
              [i \in 0 .. 1 |-> IF i = 0 THEN Px(20) ELSE Px(20) + off[1]],
              [i \in 0 .. 1 |-> IF i = 0 THEN Px(20) ELSE Px(20) + off[2]],
              [i \in 0 .. 1 |-> v[i][1]],
              [i \in 0 .. 1 |-> v[i][2]],
              [i \in 0 .. 1 |-> Px(3)],
              48, 48)
    /\ ServiceCreated
    /\ windowHands = FALSE

ImpactTick == tickerCount < ImpactTicks /\ Pass1

NextImpact == ImpactTick \/ Pass2Step \/ EndTick

SpecImpact == InitImpact /\ [][NextImpact]_vars

\* The contact normal of the pair (i, j), from j to i, in 1/NScale (lines
\* 336-339).
ContactNormal(i, j) ==
    LET dx == x[i] - x[j]
        dy == y[i] - y[j]
        dist == Sqrt(dx * dx + dy * dy)
    IN [x |-> Rnd(dx * NScale, dist), y |-> Rnd(dy * NScale, dist)]

\* The relative velocity of i and j along the contact normal, times NScale
\* (lines 347-349).
NormalVelocity(i, j) ==
    (vx[i] - vx[j]) * ContactNormal(i, j).x + (vy[i] - vy[j]) * ContactNormal(i, j).y

\* The scan of particle i tests j and finds the pair overlapping.
FoundOverlapping(i, j) ==
    /\ i # j
    /\ j \in Candidates(i)
    /\ Overlapping([x |-> x, y |-> y, vx |-> vx, vy |-> vy], i, j)

\* Half the relative normal velocity along the normal, as a vector.
HalfNormalVelocity(i, j) ==
    LET dot == Rnd(NormalVelocity(i, j), NScale)
    IN [x |-> Rnd(ContactNormal(i, j).x * dot, 2 * NScale),
        y |-> Rnd(ContactNormal(i, j).y * dot, 2 * NScale)]

(***************************************************************************)
(* C19.  In a simulation of two particles, the Pass 2 step of particle i   *)
(* changes the velocities only if it finds the pair overlapping and        *)
(* approaching (relative velocity along the contact normal below zero):    *)
(* then i loses and j gains half the relative normal velocity along the    *)
(* normal, the two changes being equal and opposite; in every other case   *)
(* both velocities are exactly as they were.                               *)
(***************************************************************************)
C19_ImpulseOnlyWhenApproaching ==
    [][pc = "pass2" /\ cur < particleCount /\ particleCount = 2 /\ cur' = cur + 1 =>
        LET i == cur
            j == 1 - cur
        IN IF FoundOverlapping(i, j) /\ NormalVelocity(i, j) < 0
           THEN /\ vx'[i] = vx[i] - HalfNormalVelocity(i, j).x
                /\ vy'[i] = vy[i] - HalfNormalVelocity(i, j).y
                /\ vx'[j] - vx[j] = -(vx'[i] - vx[i])
                /\ vy'[j] - vy[j] = -(vy'[i] - vy[i])
           ELSE vx' = vx /\ vy' = vy]_vars

\* Particle 0 has been processed in Pass 2 and its velocity is no longer the
\* one Pass 1 left: an impulse was applied, opposite on particle 1.
C19_Witness ==
    /\ pc = "pass2"
    /\ cur = 1
    /\ particleCount = 2
    /\ vx[0] # Pass1From(handData, 0).vx
    /\ vx[1] - Pass1From(handData, 1).vx = -(vx[0] - Pass1From(handData, 0).vx)
    /\ vy[1] - Pass1From(handData, 1).vy = -(vy[0] - Pass1From(handData, 0).vy)

\* Particle i of the running tick after lines 221-281, before the boundary
\* handling: its velocity and its position after the move.
BeforeBoundary(i) ==
    LET a == AccumulatedFrom(handData, i)
        nvx == Velocity(tickStart.vx[i], a.dvx, a.ax)
        nvy == Velocity(tickStart.vy[i], a.dvy, a.ay)
    IN [x |-> Move(tickStart.x[i], nvx), y |-> Move(tickStart.y[i], nvy),
        vx |-> nvx, vy |-> nvy]

\* The boundary handling moves a position pos of particle i on an axis of
\* extent dim.
Clamps(i, pos, dim) == pos > Px(dim) - radius[i] \/ pos < radius[i]

(***************************************************************************)
(* C20.  When Pass 1 has completed, for every particle and each axis: if   *)
(* the position after the move was outside [radius, screenDim - radius],   *)
(* the velocity component of that axis is -0.3 times its value before the  *)
(* boundary handling, and otherwise it is that value unchanged; what       *)
(* happens on the other axis plays no part.                                *)
(***************************************************************************)
C20_ClampReflectsOnce ==
    AfterPass1 =>
        \A i \in Particles :
            LET b == BeforeBoundary(i)
            IN StartPositionFinite(i) /\ IsFinite(b.vx) /\ IsFinite(b.vy) =>
                /\ vx[i] = IF Clamps(i, b.x, screenW) THEN Rnd(-3 * b.vx, 10) ELSE b.vx
                /\ vy[i] = IF Clamps(i, b.y, screenH) THEN Rnd(-3 * b.vy, 10) ELSE b.vy

\* Pass 1 has clamped a particle moving on both axes against the ceiling
\* only: its vertical velocity is reflected and its horizontal one kept.
C20_Witness ==
    /\ AfterPass1
    /\ \E i \in Particles :
        LET b == BeforeBoundary(i)
        IN /\ StartPositionFinite(i) /\ IsFinite(b.vx) /\ IsFinite(b.vy)
           /\ b.y < radius[i]
           /\ ~Clamps(i, b.x, screenW)
           /\ b.vx # 0 /\ b.vy # 0
           /\ vx[i] = b.vx
           /\ vy[i] = Rnd(-3 * b.vy, 10)

(***************************************************************************)
(* SpecZero: one tick of two equal particles, at the same point with the   *)
(* same velocity or next to each other, under a single hand that can lie   *)
(* exactly on the first particle (the centre of a 48 by 48 screen).        *)
(***************************************************************************)
ZeroTicks == 1

\* Where the second particle is drawn, from the first one's centre.
ZeroOffsets == {0, Px(2)}

\* The velocity both particles are drawn with.
ZeroVels == {<<0, 0>>, <<Px(2), -Px(1)>>}

InitZero ==
    /\ \E off \in ZeroOffsets, v \in ZeroVels :
        Setup(2,
              [i \in 0 .. 1 |-> IF i = 0 THEN Px(24) ELSE Px(24) + off],
              [i \in 0 .. 1 |-> Px(24)],
              [i \in 0 .. 1 |-> v[1]],
              [i \in 0 .. 1 |-> v[2]],
              [i \in 0 .. 1 |-> Px(3)],
              48, 48)
    /\ ServiceSending

ZeroTick == tickerCount < ZeroTicks /\ Pass1

NextZero == ZeroTick \/ Pass2Step \/ EndTick \/ GestureInput

SpecZero == InitZero /\ [][NextZero]_vars

\* The running tick found particle i exactly at the position of the single
\* hand of the slot.
HandOnParticle(i) ==
    /\ Len(handData) = 1
    /\ HandDx(i) = 0
    /\ HandDy(i) = 0

\* The running tick found particles i and j at the same point with the same
\* velocity.
Coincident(i, j) ==
    /\ i # j
    /\ tickStart.x[i] = tickStart.x[j] /\ tickStart.y[i] = tickStart.y[j]
    /\ tickStart.vx[i] = tickStart.vx[j] /\ tickStart.vy[i] = tickStart.vy[j]

(***************************************************************************)
(* C21.  At the end of a tick that found every particle finite and a hand  *)
(* exactly at a particle's position, or two particles at exactly the same  *)
(* position, every position and every velocity is finite.                  *)
(***************************************************************************)
C21_ZeroDistanceStaysFinite ==
    TickDone /\ (\A i \in Particles : StartPositionFinite(i) /\ StartVelocityFinite(i))
             /\ (\/ \E i \in Particles : HandOnParticle(i)
                 \/ \E i, j \in Particles : Coincident(i, j)) =>
        \A i \in Particles : AllFinite(i)

\* A tick has ended that found two particles at one point, under an open
\* palm lying exactly on them.
C21_Witness ==
    /\ TickDone
    /\ Coincident(0, 1)
    /\ HandOnParticle(0)
    /\ TheHand.gesture = "OPEN_PALM"
    /\ \A i \in Particles : AllFinite(i)

(***************************************************************************)
(* SpecTrio: one tick of three overlapping particles in mid-air: the pair  *)
(* of SpecImpact and a third particle, at rest or moving, that overlaps    *)
(* the first.                                                              *)
(***************************************************************************)
InitTrio ==
    /\ \E off \in ImpactOffsets, v \in [0 .. 2 -> ImpactVels] :
        Setup(3,
              [i \in 0 .. 2 |-> IF i = 0 THEN Px(20)
                                ELSE IF i = 1 THEN Px(20) + off[1] ELSE Px(18)],
              [i \in 0 .. 2 |-> IF i = 0 THEN Px(20)
                                ELSE IF i = 1 THEN Px(20) + off[2] ELSE Px(19)],
              [i \in 0 .. 2 |-> v[i][1]],
              [i \in 0 .. 2 |-> v[i][2]],
              [i \in 0 .. 2 |-> Px(3)],
              48, 48)
    /\ ServiceCreated
    /\ windowHands = FALSE

SpecTrio == InitTrio /\ [][NextImpact]_vars

\* The particle arrays as Pass 2 works on them.
Arrays == [x |-> x, y |-> y, vx |-> vx, vy |-> vy]

\* The sum of f over the particles.
Total(f) == SumOver(Particles, f)

(***************************************************************************)
(* C22.  The resolution of any pair (i, j) from any state of Pass 2 leaves *)
(* x[i] + x[j], y[i] + y[j], vx[i] + vx[j] and vy[i] + vy[j] as they were  *)
(* and changes no field of any other particle; and so every Pass 2 step    *)
(* leaves the four sums over all particles as they were.                   *)
(***************************************************************************)
C22_PairResolutionConserves ==
    /\ [](pc = "pass2" =>
            \A i \in Particles, j \in Particles :
                \A r \in {ResolvePair(Arrays, i, j)} :
                    /\ r.x[i] + r.x[j] = x[i] + x[j]
                    /\ r.y[i] + r.y[j] = y[i] + y[j]
                    /\ r.vx[i] + r.vx[j] = vx[i] + vx[j]
                    /\ r.vy[i] + r.vy[j] = vy[i] + vy[j]
                    /\ \A k \in Particles \ {i, j} :
                        /\ r.x[k] = x[k] /\ r.y[k] = y[k]
                        /\ r.vx[k] = vx[k] /\ r.vy[k] = vy[k])
    /\ [][pc = "pass2" /\ cur' = cur + 1 =>
            /\ Total(x') = Total(x) /\ Total(y') = Total(y)
            /\ Total(vx') = Total(vx) /\ Total(vy') = Total(vy)]_vars

\* Particle 0 of three has been processed in Pass 2, which moved it and
\* changed its velocity, while the sums of the velocities Pass 1 left are
\* still there.
C22_Witness ==
    /\ pc = "pass2"
    /\ cur = 1
    /\ particleCount = 3
    /\ x[0] # Pass1From(handData, 0).x
    /\ vx[0] # Pass1From(handData, 0).vx
    /\ Total(vx) = Total([i \in Particles |-> Pass1From(handData, i).vx])
    /\ Total(vy) = Total([i \in Particles |-> Pass1From(handData, i).vy])

(***************************************************************************)
(* SpecTrack: the detector's results, one after another, through the       *)
(* whole of onResults, with the clock advancing between them.              *)
(***************************************************************************)

\* The time between two results: under and over the 10 ms threshold.
Elapsed == {5, 20}

\* Two poses of a hand: wrist and knuckle, in percent of the frame.
Poses ==
    {[wrist |-> [x |-> 40, y |-> 50], middleMCP |-> [x |-> 40, y |-> 30]],
     [wrist |-> [x |-> 70, y |-> 60], middleMCP |-> [x |-> 60, y |-> 40]]}

\* One landmark list with its handedness ("none": no entry at that index)
\* and its count of open fingers: the first pose is a palm, the other a fist.
Entries ==
    {[handedness |-> h, wrist |-> p.wrist, middleMCP |-> p.middleMCP,
      openCount |-> IF p.wrist.x = 40 THEN 3 ELSE 2] :
        h \in {"Left", "Right", "none"}, p \in Poses}

\* The results of the detector: no hand, one hand, two hands.
DetectorResults ==
    {<< >>} \cup {<<e>> : e \in Entries} \cup {<<e, f>> : e, f \in Entries}

InitTrack ==
    /\ Setup(1, [i \in {0} |-> Px(24)], [i \in {0} |-> Px(24)],
             [i \in {0} |-> 0], [i \in {0} |-> 0], [i \in {0} |-> Px(3)], 48, 48)
    /\ ServiceSending

DetectorInput == \E r \in DetectorResults, e \in Elapsed : OnResultsTracked(r, e)

NextTrack == DetectorInput \/ SendSettled \/ FrameFired

SpecTrack == InitTrack /\ [][NextTrack]_vars

\* A handler call has happened in this step.
Published == now' # now

NonZero(v) == v.x # 0 \/ v.y # 0

\* The hand of a published list is the first of its label in that list.
FirstOfLabel(hands, k) == \A m \in 1 .. k - 1 : hands[m].id # hands[k].id

\* C23: a record published for a label that has no record since the last
\* result without hands (or since the service was created) carries velocity
\* (0, 0), and a record with a non-zero velocity is published only for a
\* label recorded more than 10 ms earlier with no result without hands in
\* between; a result without hands publishes the empty list and clears the
\* history.
C23_VelocityNeedsHistory ==
    [][Published =>
          /\ \A k \in 1 .. Len(handData') :
                /\ recorded[handData'[k].id].last = -1 /\ FirstOfLabel(handData', k)
                      => ~NonZero(handData'[k].velocity)
                /\ NonZero(handData'[k].velocity)
                      => /\ recorded[handData'[k].id].last # -1
                         /\ now' - recorded[handData'[k].id].last > VELOCITY_MIN_DT_MS
          /\ Len(handData') = 0 =>
                \A l \in Labels : lastPositions'[l] = NoPosition /\ recorded'[l].last = -1]_vars

\* The left hand was recorded, a result without hands at 10 ms discarded the
\* record, and 20 ms later the hand is published again for the first time,
\* at another place than any it could have had: with velocity (0, 0).
C23_Witness ==
    /\ now = 30
    /\ Len(handData) = 1
    /\ handData[1].id = "Left"
    /\ recorded["Left"] = [first |-> 30, last |-> 30, dropped |-> 10]
    /\ recorded["Right"] = NoRecord
    /\ ~NonZero(handData[1].velocity)
    /\ lastPositions["Left"] = [x |-> 35, y |-> 50, time |-> 30]

\* The cell index lines 303-308 compute for particle i, and whether the
\* particle was inserted, from the positions Pass 1 has written.
CellOf(i) == CellCoord(y[i]) * gridW + CellCoord(x[i])
Inserted(i) == InGrid(CellCoord(x[i]), CellCoord(y[i]))

StrictlyDecreasing(s) == \A k \in 1 .. Len(s) - 1 : s[k] > s[k + 1]

\* The last entry of the list points to -1.
EndsAtListEnd(s) == Len(s) > 0 => nextParticle[s[Len(s)]] = -1

\* C24: after Pass 1, the next entry of every particle inserted in this tick
\* is -1 or a smaller index inserted into the same cell in this tick; every
\* cell's list is strictly decreasing and ends at -1, and holds only
\* particles inserted into that cell in this tick, so no entry that next
\* keeps from an earlier tick is reached from a head.
C24_ListsDecreaseWithinTick ==
    AfterPass1 =>
        /\ \A i \in Particles :
              Inserted(i) =>
                 \/ nextParticle[i] = -1
                 \/ /\ nextParticle[i] \in Particles
                    /\ nextParticle[i] < i
                    /\ Inserted(nextParticle[i])
                    /\ CellOf(nextParticle[i]) = CellOf(i)
        /\ \A c \in DOMAIN gridHead :
              /\ StrictlyDecreasing(CellList(c))
              /\ EndsAtListEnd(CellList(c))
              /\ \A k \in 1 .. Len(CellList(c)) :
                    Inserted(CellList(c)[k]) /\ CellOf(CellList(c)[k]) = c

\* Particle 1 was linked in front of particle 0 in an earlier tick and is
\* left out of the grid in this one: its next entry still names particle 0,
\* and no list holds particle 1.
C24_Witness ==
    /\ AfterPass1
    /\ particleCount = 2
    /\ ~Inserted(1)
    /\ nextParticle[1] = 0
    /\ Inserted(0)
    /\ CellList(CellOf(0)) = <<0>>
    /\ \A c \in DOMAIN gridHead : Occurrences(1, c) = 0

=========================================================================
